---- MODULE Spec2Model ----
(***************************************************************************)
(* Model of src/src/scripts/upcoming.js: the script that reconciles the    *)
(* wiki launch manifest against the upcoming launches of the database.     *)
(*                                                                         *)
(* Strings the script inspects character by character (the manifest dates) *)
(* are sequences of one-character strings; strings it only compares for    *)
(* equality (payload ids, launchpad labels, site ids) are TLA+ strings.     *)
(* JavaScript arrays are sequences; the script's zero-based indices are    *)
(* kept (payload_index, manifest_index, index) and element i of an array   *)
(* is a[i + 1].                                                            *)
(***************************************************************************)
EXTENDS Integers, Sequences, FiniteSets, TLC

VARIABLES
    pc,                 \* position of the async function
    past_launches,      \* flight numbers of col.find({upcoming:false}), sorted descending
    base_flight_number,
    payloads, sites,    \* parallel arrays collected from the upcoming launches
    manifest_dates, manifest_launchpads,   \* parallel arrays, manifest order
    payload_index, manifest_index,          \* position of the nested forEach
    ratio,              \* history: the fuzz.partial_ratio result of every pair visited
    precision, tbd, is_tentative,           \* module-level accumulators
    location, date, localTime, calculatedTimes,
    flight_numbers,
    promises,           \* the col.updateOne calls issued so far, in issue order
    matched,            \* history: the <<payload_index, manifest_index>> of each call
    index, logged,      \* position of output.forEach and the line it last logged
    exit_code           \* the code the process ends with (0 unless process.exit(1) ran)

vars == <<pc, past_launches, base_flight_number, payloads, sites, manifest_dates,
          manifest_launchpads, payload_index, manifest_index, ratio, precision, tbd,
          is_tentative, location, date, localTime, calculatedTimes, flight_numbers,
          promises, matched, index, logged, exit_code>>

----------------------------------------------------------------------------
(* Bounds of the model *)

MaxLaunches == 2
MaxRows == 2
MaxPastFlight == 2
MaxTokens == 3

null == "null"
undefined == "undefined"

----------------------------------------------------------------------------
(* Characters and strings *)

Digits == {"0", "1", "2", "3", "4", "5", "6", "7", "8", "9"}
LowerCase == <<"a", "b", "c", "d", "e", "f", "g", "h", "i", "j", "k", "l", "m",
               "n", "o", "p", "q", "r", "s", "t", "u", "v", "w", "x", "y", "z">>
UpperCase == <<"A", "B", "C", "D", "E", "F", "G", "H", "I", "J", "K", "L", "M",
               "N", "O", "P", "Q", "R", "S", "T", "U", "V", "W", "X", "Y", "Z">>
Range(s) == {s[i] : i \in DOMAIN s}
Letters == Range(LowerCase) \cup Range(UpperCase)

\* The case folding of the i flag.
Lower(c) ==
    IF c \in Range(UpperCase)
    THEN LowerCase[CHOOSE i \in DOMAIN UpperCase : UpperCase[i] = c]
    ELSE c
LowerStr(s) == [i \in DOMAIN s |-> Lower(s[i])]

AllIn(s, set) == \A i \in DOMAIN s : s[i] \in set

\* Whether pat occurs in s at position i (1-based).
OccursAt(s, pat, i) ==
    /\ i >= 1
    /\ i + Len(pat) - 1 <= Len(s)
    /\ \A k \in 1..Len(pat) : s[i + k - 1] = pat[k]

\* String.prototype.includes
Includes(s, pat) == \E i \in 1..Len(s) : OccursAt(s, pat, i)

\* s with the Len(pat)-long piece at position i cut out and rep put in.
Splice(s, i, n, rep) == SubSeq(s, 1, i - 1) \o rep \o SubSeq(s, i + n, Len(s))

\* String.prototype.replace with a string pattern: the first occurrence only.
Replace(s, pat, rep) ==
    IF Includes(s, pat)
    THEN LET i == CHOOSE j \in 1..Len(s) :
                      OccursAt(s, pat, j) /\ \A k \in 1..(j - 1) : ~OccursAt(s, pat, k)
         IN Splice(s, i, Len(pat), rep)
    ELSE s

\* The pieces of s between its single space characters (\s in the patterns
\* consumes exactly one of them, and no other class of the patterns admits one).
RECURSIVE SplitFrom(_, _, _, _)
SplitFrom(s, i, cur, acc) ==
    IF i > Len(s) THEN Append(acc, cur)
    ELSE IF s[i] = " " THEN SplitFrom(s, i + 1, <<>>, Append(acc, cur))
    ELSE SplitFrom(s, i + 1, Append(cur, s[i]), acc)
Split(s) == SplitFrom(s, 1, <<>>, <<>>)

\* tokens joined by single spaces
RECURSIVE Join(_)
Join(tokens) ==
    IF tokens = <<>> THEN <<>>
    ELSE IF Len(tokens) = 1 THEN tokens[1]
    ELSE tokens[1] \o <<" ">> \o Join(Tail(tokens))

----------------------------------------------------------------------------
(* The regular expressions of the manifest dates (all carry the i flag) *)

IsDigits(t, lo, hi) == Len(t) >= lo /\ Len(t) <= hi /\ AllIn(t, Digits)

\* ([a-z]{3}|[a-z]{3,9}) under the i flag: three to nine letters of either case
IsWord(t) == Len(t) >= 3 /\ Len(t) <= 9 /\ AllIn(t, Letters)

\* (\[[0-9]{2}:[0-9]{2}\]|[0-9]{2}:[0-9]{2})
IsClock(t) ==
    /\ Len(t) = 5
    /\ t[1] \in Digits /\ t[2] \in Digits /\ t[3] = ":" /\ t[4] \in Digits /\ t[5] \in Digits
IsTime(t) ==
    \/ Len(t) = 7 /\ t[1] = "[" /\ t[7] = "]" /\ IsClock(SubSeq(t, 2, 6))
    \/ IsClock(t)

hour(s) ==
    LET t == Split(s)
    IN Len(t) = 4 /\ IsDigits(t[1], 4, 4) /\ IsWord(t[2]) /\ IsDigits(t[3], 1, 2) /\ IsTime(t[4])

day(s) ==
    LET t == Split(s)
    IN Len(t) = 3 /\ IsDigits(t[1], 4, 4) /\ IsWord(t[2]) /\ IsDigits(t[3], 1, 2)

month(s) ==
    LET t == Split(s)
    IN Len(t) = 2 /\ IsDigits(t[1], 4, 4) /\ IsWord(t[2])

year(s) ==
    LET t == Split(s)
    IN Len(t) = 1 /\ IsDigits(t[1], 4, 4)

year_tbd(s) ==
    LET t == Split(s)
    IN Len(t) = 2 /\ IsDigits(t[1], 4, 4) /\ LowerStr(t[2]) = <<"t", "b", "d">>

month_tbd(s) ==
    LET t == Split(s)
    IN Len(t) = 3 /\ IsDigits(t[1], 4, 4) /\ IsWord(t[2]) /\ LowerStr(t[3]) = <<"t", "b", "d">>

VagueWords == {<<"e", "a", "r", "l", "y">>, <<"m", "i", "d">>, <<"l", "a", "t", "e">>}

month_vague(s) ==
    LET t == Split(s)
    IN Len(t) = 3 /\ IsDigits(t[1], 4, 4) /\ LowerStr(t[2]) \in VagueWords /\ IsWord(t[3])

----------------------------------------------------------------------------
(* The classification cascade of a matched row's date *)

NoMatch == [matched |-> FALSE, mdate |-> <<>>, precision |-> null,
            tbd |-> FALSE, is_tentative |-> FALSE]

Tier(mdate, p, t, tent) ==
    [matched |-> TRUE, mdate |-> mdate, precision |-> p, tbd |-> t, is_tentative |-> tent]

\* The cascade with the plain-month test moved in front of the TBD tests.
ClassifyMonthFirst(raw) ==
    IF Includes(raw, <<"Q">>) THEN Tier(Replace(raw, <<"Q">>, <<>>), "quarter", TRUE, TRUE)
    ELSE IF Includes(raw, <<"H", "1">>) THEN Tier(Replace(raw, <<"H", "1">>, <<"1">>), "half", TRUE, TRUE)
    ELSE IF Includes(raw, <<"H", "2">>) THEN Tier(Replace(raw, <<"H", "2">>, <<"3">>), "half", TRUE, TRUE)
    ELSE IF month(raw) THEN Tier(raw, "month", TRUE, TRUE)
    ELSE IF year_tbd(raw) THEN Tier(raw, "year", TRUE, TRUE)
    ELSE IF year(raw) THEN Tier(raw, "year", TRUE, TRUE)
    ELSE IF month_tbd(raw) THEN Tier(raw, "month", TRUE, TRUE)
    ELSE IF month_vague(raw) THEN Tier(raw, "month", TRUE, TRUE)
    ELSE IF day(raw) THEN Tier(raw, "day", FALSE, TRUE)
    ELSE IF hour(raw) THEN Tier(raw, "hour", FALSE, FALSE)
    ELSE NoMatch

\* let mdate = manifest_dates[manifest_index]; if ... else if ... else return
Classify(raw) ==
    IF Includes(raw, <<"Q">>) THEN Tier(Replace(raw, <<"Q">>, <<>>), "quarter", TRUE, TRUE)
    ELSE IF Includes(raw, <<"H", "1">>) THEN Tier(Replace(raw, <<"H", "1">>, <<"1">>), "half", TRUE, TRUE)
    ELSE IF Includes(raw, <<"H", "2">>) THEN Tier(Replace(raw, <<"H", "2">>, <<"3">>), "half", TRUE, TRUE)
    ELSE IF year_tbd(raw) THEN Tier(raw, "year", TRUE, TRUE)
    ELSE IF year(raw) THEN Tier(raw, "year", TRUE, TRUE)
    ELSE IF month_tbd(raw) THEN Tier(raw, "month", TRUE, TRUE)
    ELSE IF month_vague(raw) THEN Tier(raw, "month", TRUE, TRUE)
    ELSE IF month(raw) THEN Tier(raw, "month", TRUE, TRUE)
    ELSE IF day(raw) THEN Tier(raw, "day", FALSE, TRUE)
    ELSE IF hour(raw) THEN Tier(raw, "hour", FALSE, FALSE)
    ELSE NoMatch

----------------------------------------------------------------------------
(* The string handed to the date parser, and the parsed time *)

\* date.replace(/(early|mid|late)/i, ''): the leftmost match, removed
ReplaceVague(s) ==
    LET low == LowerStr(s)
        At(i) == \E w \in VagueWords : OccursAt(low, w, i)
    IN IF \E i \in 1..Len(s) : At(i)
       THEN LET i == CHOOSE j \in 1..Len(s) : At(j) /\ \A k \in 1..(j - 1) : ~At(k)
                w == CHOOSE v \in VagueWords : OccursAt(low, v, i)
            IN Splice(s, i, Len(w), <<>>)
       ELSE s

UtcOffset == <<" ", "+", "0", "0", "0", "0">>

\* `${date.replace(/(early|mid|late)/i, '').replace('[', '').replace(']', '')} +0000`
ParsedDate(d) ==
    Replace(Replace(ReplaceVague(d), <<"[">>, <<>>), <<"]">>, <<>>) \o UtcOffset

MomentFormats == <<"YYYY MMM D HH:mm Z", "YYYY MMM D Z", "YYYY MMM Z", "YYYY Q Z", "YYYY Z">>

\* moment(parsed_date, formats): the library's value, known here by its arguments
moment(parsed_date) == [input |-> parsed_date, formats |-> MomentFormats]

\* The time zone chosen from the launch's own site id.
TimeZone(loc) ==
    IF loc = "ccafs_slc_40" \/ loc = "ksc_lc_39a" \/ loc = "ccafs_lc_13" THEN "America/New_York"
    ELSE IF loc = "vafb_slc_4e" \/ loc = "vafb_slc_4w" THEN "America/Los_Angeles"
    ELSE "America/Chicago"

----------------------------------------------------------------------------
(* The launch site of a manifest launchpad label *)

Site(id, name, long) == [site_id |-> id, site_name |-> name, site_name_long |-> long]

\* The lookup with the two compound Boca Chica labels filed under the wrong pad.
LaunchSiteSwapped(pad) ==
    IF pad = "SLC-40" \/ pad = "SLC-40 / LC-39A" \/ pad = "SLC-40 / BC" \/ pad = "BC / SLC-40"
    THEN Site("ccafs_slc_40", "CCAFS SLC 40", "Cape Canaveral Air Force Station Space Launch Complex 40")
    ELSE IF pad = "LC-39A" \/ pad = "LC-39A / BC" \/ pad = "LC-39A / SLC-40"
    THEN Site("ksc_lc_39a", "KSC LC 39A", "Kennedy Space Center Historic Launch Complex 39A")
    ELSE IF pad = "SLC-4E"
    THEN Site("vafb_slc_4e", "VAFB SLC 4E", "Vandenberg Air Force Base Space Launch Complex 4E")
    ELSE IF pad = "BC" \/ pad = "BC / LC-39A"
    THEN Site("stls", "STLS", "SpaceX South Texas Launch Site")
    ELSE Site(null, null, null)

LaunchSite(pad) ==
    IF pad = "SLC-40" \/ pad = "SLC-40 / LC-39A" \/ pad = "SLC-40 / BC"
    THEN Site("ccafs_slc_40", "CCAFS SLC 40", "Cape Canaveral Air Force Station Space Launch Complex 40")
    ELSE IF pad = "LC-39A" \/ pad = "LC-39A / BC" \/ pad = "LC-39A / SLC-40"
    THEN Site("ksc_lc_39a", "KSC LC 39A", "Kennedy Space Center Historic Launch Complex 39A")
    ELSE IF pad = "SLC-4E"
    THEN Site("vafb_slc_4e", "VAFB SLC 4E", "Vandenberg Air Force Base Space Launch Complex 4E")
    ELSE IF pad = "BC" \/ pad = "BC / LC-39A" \/ pad = "BC / SLC-40"
    THEN Site("stls", "STLS", "SpaceX South Texas Launch Site")
    ELSE Site(null, null, null)

----------------------------------------------------------------------------
(* Helpers of the pipeline *)

\* a[i] = x on a JavaScript array that may be sparse
AssignAt(a, i, x) == [k \in (DOMAIN a) \cup {i} |-> IF k = i THEN x ELSE a[k]]

\* The threshold moved down to "at least 99".
AcceptsNearMatch(score) == score >= 99

\* fuzz.partial_ratio(payload, manifest_payload) === 100
Accepts(score) == score = 100

\* The base taken from the other end of the sorted list.
BaseFromOldest(past) == past[Len(past)] + 1

\* past_launches[0].flight_number + 1
BaseFlightNumber(past) == past[1] + 1

\* The ordinal taken from the position of the internal record.
FlightNumberByPayload(base, p_index, m_index) == base + p_index

\* base_flight_number + manifest_index
FlightNumber(base, p_index, m_index) == base + m_index

\* [...new Set(flight_numbers)].length < flight_numbers.length
HasDuplicates(numbers) == Cardinality(Range(numbers)) < Len(numbers)

\* Whether the callback goes on past the cascade (it returns in the else branch).
Proceeds(c) == c.matched

\* The pair the nested forEach visits after <<p, m>>, or none.
HasNextPair(p, m) == m + 1 < Len(manifest_dates) \/ p + 1 < Len(payloads)
NextPayloadIndex(p, m) == IF m + 1 < Len(manifest_dates) THEN p ELSE p + 1
NextManifestIndex(p, m) == IF m + 1 < Len(manifest_dates) THEN m + 1 ELSE 0

----------------------------------------------------------------------------
(* Inputs *)

\* The results fuzz.partial_ratio may give a pair: the maximum and a near miss.
Scores == {99, 100}

\* The upcoming launches of the collection, sorted by flight number.
UpcomingLaunches ==
    << [payload_id |-> "SSO-A", site_id |-> "vafb_slc_4e"],
       [payload_id |-> "Starlink", site_id |-> "ccafs_slc_40"],
       [payload_id |-> "SSO-B", site_id |-> "stls"],
       [payload_id |-> "GPS III", site_id |-> "ksc_lc_39a"] >>

\* col.find({ upcoming: false }).sort({ flight_number: -1 }) of a collection
\* whose past launches are numbered 1..n
PastLaunches(n) == [i \in 1..n |-> n + 1 - i]

Str_2020 == <<"2", "0", "2", "0">>
Str_NET == <<"N", "E", "T">>
Str_Q3 == <<"Q", "3">>
Str_H1 == <<"H", "1">>
Str_H2 == <<"H", "2">>
Str_TBD == <<"T", "B", "D">>
Str_Nov == <<"N", "o", "v">>
Str_november == <<"n", "o", "v", "e", "m", "b", "e", "r">>
Str_Late == <<"L", "a", "t", "e">>
Str_4 == <<"4">>
Str_Bracketed == <<"[", "1", "4", ":", "1", "0", "]">>
Str_Clock == <<"1", "4", ":", "1", "0">>

FirstTokens == {Str_2020, Str_NET}
Vocabulary == {Str_Q3, Str_H1, Str_H2, Str_TBD, Str_Nov, Str_november, Str_Late,
               Str_4, Str_Bracketed, Str_Clock}

\* Every date text of a first token and up to MaxTokens further ones.
AllDates ==
    {Join(<<f>> \o t) : f \in FirstTokens,
                        t \in UNION {[1..n -> Vocabulary] : n \in 0..MaxTokens}}

AllLaunchpads == {"SLC-40", "SLC-40 / LC-39A", "SLC-40 / BC", "LC-39A", "LC-39A / BC",
                  "LC-39A / SLC-40", "SLC-4E", "BC", "BC / LC-39A", "BC / SLC-40",
                  "unknown-pad", "SLC-4W"}

Date_Hour == Join(<<Str_2020, Str_Nov, Str_4, Str_Bracketed>>)
Date_Quarter == Join(<<Str_2020, Str_Q3>>)
Date_Unknown == Join(<<Str_NET, Str_TBD>>)

\* The rows a manifest of the pipeline runs is made of: <<date, launchpad>>.
ManifestRows == { <<Date_Hour, "SLC-40 / LC-39A">>,
                  <<Date_Quarter, "unknown-pad">>,
                  <<Date_Unknown, "SLC-4E">> }

\* The rows of the single-row runs: every date text, and every launchpad label.
SingleRows == {<<d, "SLC-40">> : d \in AllDates} \cup {<<Date_Hour, l>> : l \in AllLaunchpads}

----------------------------------------------------------------------------
(* The state when the nested forEach starts (lines 56-86) *)

Start(nLaunches, nPast, rows) ==
    /\ past_launches = PastLaunches(nPast)
    /\ base_flight_number = BaseFlightNumber(PastLaunches(nPast))
    /\ payloads = [i \in 1..nLaunches |-> UpcomingLaunches[i].payload_id]
    /\ sites = [i \in 1..nLaunches |-> UpcomingLaunches[i].site_id]
    /\ manifest_dates = [i \in 1..Len(rows) |-> rows[i][1]]
    /\ manifest_launchpads = [i \in 1..Len(rows) |-> rows[i][2]]
    /\ pc = IF nLaunches > 0 /\ Len(rows) > 0 THEN "forEach" ELSE "check"
    /\ payload_index = 0
    /\ manifest_index = 0
    /\ ratio = << >>
    /\ precision = << >>
    /\ tbd = undefined
    /\ is_tentative = undefined
    /\ location = undefined
    /\ date = undefined
    /\ localTime = undefined
    /\ calculatedTimes = undefined
    /\ flight_numbers = << >>
    /\ promises = << >>
    /\ matched = << >>
    /\ index = 0
    /\ logged = undefined
    /\ exit_code = 0

Init ==
    \E nLaunches \in 0..MaxLaunches, nPast \in 1..MaxPastFlight,
       rows \in UNION {[1..n -> ManifestRows] : n \in 0..MaxRows} :
        Start(nLaunches, nPast, rows)

\* Two upcoming launches against a manifest of one row.
InitSingleRow ==
    \E row \in SingleRows : Start(2, 1, <<row>>)

----------------------------------------------------------------------------
(* The steps of the script *)

\* { $set: calculatedTimes } of the pair <<p, m>>, classified as c (lines 155-220).
CalculatedTimes(p, m, c) ==
    LET parsed_date == ParsedDate(manifest_dates[m + 1])
        time == moment(parsed_date)
        zone == <<time, "UTC">>
        site == LaunchSite(manifest_launchpads[m + 1])
    IN [flight_number |-> FlightNumber(base_flight_number, p, m),
        launch_year |-> <<"year", zone>>,
        launch_date_unix |-> <<"unix", zone>>,
        launch_date_utc |-> <<"toISOString", zone>>,
        launch_date_local |-> <<"format", time, TimeZone(sites[p + 1])>>,
        is_tentative |-> c.is_tentative,
        tentative_max_precision |-> c.precision,
        tbd |-> c.tbd,
        site_id |-> site.site_id,
        site_name |-> site.site_name,
        site_name_long |-> site.site_name_long]

\* One call of the inner forEach callback (lines 92-227).
ComparePayload ==
    /\ pc = "forEach"
    /\ LET p == payload_index
           m == manifest_index
       IN \E score \in Scores, c \in {Classify(manifest_dates[m + 1])} :
            /\ ratio' = AssignAt(ratio, <<p, m>>, score)
            /\ IF Accepts(score) /\ Proceeds(c)
               THEN \E times \in {CalculatedTimes(p, m, c)} :
                       /\ precision' = AssignAt(precision, m, c.precision)
                       /\ tbd' = c.tbd
                       /\ is_tentative' = c.is_tentative
                       /\ location' = sites[p + 1]
                       /\ date' = manifest_dates[m + 1]
                       /\ localTime' = times.launch_date_local
                       /\ flight_numbers' = Append(flight_numbers, times.flight_number)
                       /\ calculatedTimes' = times
                       /\ promises' = Append(promises, [filter |-> payloads[p + 1], set |-> times])
                       /\ matched' = Append(matched, <<p, m>>)
               ELSE UNCHANGED <<precision, tbd, is_tentative, location, date, localTime,
                                flight_numbers, calculatedTimes, promises, matched>>
            /\ IF HasNextPair(p, m)
               THEN /\ payload_index' = NextPayloadIndex(p, m)
                    /\ manifest_index' = NextManifestIndex(p, m)
                    /\ pc' = "forEach"
               ELSE /\ UNCHANGED <<payload_index, manifest_index>>
                    /\ pc' = "check"
    /\ UNCHANGED <<past_launches, base_flight_number, payloads, sites, manifest_dates,
                   manifest_launchpads, index, logged, exit_code>>

\* Lines 230-234: process.exit(1) on a duplicate flight number.
CheckDuplicates ==
    /\ pc = "check"
    /\ IF HasDuplicates(flight_numbers)
       THEN pc' = "exited" /\ exit_code' = 1
       ELSE pc' = "await" /\ UNCHANGED exit_code
    /\ UNCHANGED <<past_launches, base_flight_number, payloads, sites, manifest_dates,
                   manifest_launchpads, payload_index, manifest_index, ratio, precision,
                   tbd, is_tentative, location, date, localTime, calculatedTimes,
                   flight_numbers, promises, matched, index, logged>>

\* Line 237: every update resolved; output holds their results in issue order.
PromiseAllResolves ==
    /\ pc = "await"
    /\ pc' = "report"
    /\ index' = 0
    /\ UNCHANGED <<past_launches, base_flight_number, payloads, sites, manifest_dates,
                   manifest_launchpads, payload_index, manifest_index, ratio, precision,
                   tbd, is_tentative, location, date, localTime, calculatedTimes,
                   flight_numbers, promises, matched, logged, exit_code>>

\* Line 237: one of the updates failed; the async function rejects.
PromiseAllRejects ==
    /\ pc = "await"
    /\ promises # << >>
    /\ pc' = "rejected"
    /\ UNCHANGED <<past_launches, base_flight_number, payloads, sites, manifest_dates,
                   manifest_launchpads, payload_index, manifest_index, ratio, precision,
                   tbd, is_tentative, location, date, localTime, calculatedTimes,
                   flight_numbers, promises, matched, index, logged, exit_code>>

\* One call of the output.forEach callback (lines 240-246); doc is the result
\* of the update issued as promises[index].
ReportDoc ==
    /\ pc = "report"
    /\ index < Len(promises)
    /\ \E nModified \in {0, 1} :
         logged' = [payload |-> IF index + 1 \in DOMAIN payloads
                                THEN payloads[index + 1] ELSE undefined,
                    updated |-> nModified # 0]
    /\ index' = index + 1
    /\ UNCHANGED <<pc, past_launches, base_flight_number, payloads, sites, manifest_dates,
                   manifest_launchpads, payload_index, manifest_index, ratio, precision,
                   tbd, is_tentative, location, date, localTime, calculatedTimes,
                   flight_numbers, promises, matched, exit_code>>

\* Lines 248-250: client.close().
Close ==
    /\ pc = "report"
    /\ index = Len(promises)
    /\ pc' = "closed"
    /\ UNCHANGED <<past_launches, base_flight_number, payloads, sites, manifest_dates,
                   manifest_launchpads, payload_index, manifest_index, ratio, precision,
                   tbd, is_tentative, location, date, localTime, calculatedTimes,
                   flight_numbers, promises, matched, index, logged, exit_code>>

Next ==
    \/ ComparePayload
    \/ CheckDuplicates
    \/ PromiseAllResolves
    \/ PromiseAllRejects
    \/ ReportDoc
    \/ Close

Spec == Init /\ [][Next]_vars

SpecSingleRow == InitSingleRow /\ [][Next]_vars

----------------------------------------------------------------------------
(* The cascade table of the date shapes, as the specification states it *)

MonthNames ==
    {<<"j", "a", "n", "u", "a", "r", "y">>,
     <<"f", "e", "b", "r", "u", "a", "r", "y">>,
     <<"m", "a", "r", "c", "h">>,
     <<"a", "p", "r", "i", "l">>,
     <<"m", "a", "y">>,
     <<"j", "u", "n", "e">>,
     <<"j", "u", "l", "y">>,
     <<"a", "u", "g", "u", "s", "t">>,
     <<"s", "e", "p", "t", "e", "m", "b", "e", "r">>,
     <<"o", "c", "t", "o", "b", "e", "r">>,
     <<"n", "o", "v", "e", "m", "b", "e", "r">>,
     <<"d", "e", "c", "e", "m", "b", "e", "r">>}

\* A month name in its full or its three-letter form, in either case.
IsMonthName(t) ==
    \E n \in MonthNames : LowerStr(t) = n \/ LowerStr(t) = SubSeq(n, 1, 3)

IsYearToken(t) == Len(t) = 4 /\ AllIn(t, Digits)
IsQuarterToken(t) == Len(t) = 2 /\ t[1] = "Q" /\ t[2] \in {"1", "2", "3", "4"}
IsHalfToken(t) == t = <<"H", "1">> \/ t = <<"H", "2">>
IsTbdToken(t) == t = <<"T", "B", "D">>
IsVagueToken(t) == LowerStr(t) \in VagueWords
IsDayToken(t) == Len(t) \in {1, 2} /\ AllIn(t, Digits)
IsTimeToken(t) ==
    LET u == IF Len(t) = 7 /\ t[1] = "[" /\ t[7] = "]" THEN SubSeq(t, 2, 6) ELSE t
    IN Len(u) = 5 /\ u[3] = ":" /\ AllIn(<<u[1], u[2], u[4], u[5]>>, Digits)

\* The first row of the table (1..9) the date text fits, 0 when it fits none.
\* With strict a month is a month name; without, any word the patterns admit.
TableRow(raw, strict) ==
    LET t == Split(raw)
        n == Len(t)
        IsMonth(w) == IF strict THEN IsMonthName(w) ELSE IsWord(w)
    IN IF n = 0 \/ ~IsYearToken(t[1]) THEN 0
       ELSE IF n = 2 /\ IsQuarterToken(t[2]) THEN 1
       ELSE IF n = 2 /\ IsHalfToken(t[2]) THEN 2
       ELSE IF n = 2 /\ IsTbdToken(t[2]) THEN 3
       ELSE IF n = 1 THEN 4
       ELSE IF n = 3 /\ IsMonth(t[2]) /\ IsTbdToken(t[3]) THEN 5
       ELSE IF n = 3 /\ IsVagueToken(t[2]) /\ IsMonth(t[3]) THEN 6
       ELSE IF n = 2 /\ IsMonth(t[2]) THEN 7
       ELSE IF n = 3 /\ IsMonth(t[2]) /\ IsDayToken(t[3]) THEN 8
       ELSE IF n = 4 /\ IsMonth(t[2]) /\ IsDayToken(t[3]) /\ IsTimeToken(t[4]) THEN 9
       ELSE 0

Shape(raw) == TableRow(raw, TRUE)

\* tier, tentative, tbd of each row of the table
TableTier == <<"quarter", "half", "year", "year", "month", "month", "month", "day", "hour">>
TableTentative == <<TRUE, TRUE, TRUE, TRUE, TRUE, TRUE, TRUE, TRUE, FALSE>>
TableTbd == <<TRUE, TRUE, TRUE, TRUE, TRUE, TRUE, TRUE, FALSE, FALSE>>

\* The site id of every label of the launchpad table.
SiteTable ==
    { <<"SLC-40", "ccafs_slc_40">>, <<"SLC-40 / LC-39A", "ccafs_slc_40">>,
      <<"SLC-40 / BC", "ccafs_slc_40">>,
      <<"LC-39A", "ksc_lc_39a">>, <<"LC-39A / BC", "ksc_lc_39a">>,
      <<"LC-39A / SLC-40", "ksc_lc_39a">>,
      <<"SLC-4E", "vafb_slc_4e">>,
      <<"BC", "stls">>, <<"BC / LC-39A", "stls">>, <<"BC / SLC-40", "stls">> }
TableLabels == {e[1] : e \in SiteTable}

----------------------------------------------------------------------------
(* What the history says about a run *)

Updates == 1..Len(promises)
RowOf(i) == matched[i][2]
RawDateOf(i) == manifest_dates[RowOf(i) + 1]
LaunchpadOf(i) == manifest_launchpads[RowOf(i) + 1]
\* the text handed to moment() for update i
ParserInputOf(i) == promises[i].set.launch_date_utc[2][1].input
Visited == DOMAIN ratio
LoopDone == pc # "forEach"
Max(S) == CHOOSE x \in S : \A y \in S : y <= x

----------------------------------------------------------------------------
(* C1 *)

\* C1: in every run in which two matches get the same flight number, the run
\* ends in the failure exit and no updateOne call has been issued at any point
\* of it.
C1_NoUpdateWhenDuplicate ==
    (HasDuplicates(flight_numbers) \/ pc = "exited") => promises = << >>

----------------------------------------------------------------------------
(* C2 *)

\* C2: the flight number written by every update is one more than the largest
\* flight number of the past launches, plus the zero-based manifest position of
\* the update's row, whatever the internal record and the other matches are.
C2_OrdinalIsBasePlusPosition ==
    \A i \in Updates :
        /\ promises[i].set.flight_number = Max(Range(past_launches)) + 1 + RowOf(i)
        /\ flight_numbers[i] = promises[i].set.flight_number

\* Two past launches, and an update for the second row of the manifest.
C2_Witness ==
    /\ Len(past_launches) = 2
    /\ \E i \in Updates : RowOf(i) = 1 /\ promises[i].set.flight_number = 4

----------------------------------------------------------------------------
(* C3 *)

\* C3: for a date text of one of the nine shapes of the table, a matched pair
\* gets its update, and the update carries the tier and the flags of the first
\* row of the table the text fits.
C3_TierAndFlagsOfFirstRow ==
    /\ \A i \in Updates :
         LET r == Shape(RawDateOf(i))
         IN r # 0 =>
              /\ promises[i].set.tentative_max_precision = TableTier[r]
              /\ promises[i].set.is_tentative = TableTentative[r]
              /\ promises[i].set.tbd = TableTbd[r]
              /\ precision[RowOf(i)] = TableTier[r]
    /\ \A v \in Visited :
         (ratio[v] = 100 /\ Shape(manifest_dates[v[2] + 1]) # 0) => v \in Range(matched)

\* An update for "2020 TBD", which fits the plain-month pattern too, with the
\* year tier.
C3_Witness ==
    \E i \in Updates :
        /\ RawDateOf(i) = Join(<<Str_2020, Str_TBD>>)
        /\ promises[i].set.tentative_max_precision = "year"

----------------------------------------------------------------------------
(* C4 *)

\* C4: a matched row whose date fits none of the pattern families of the table
\* (a month being any word the patterns admit) gets no update and no flight
\* number in the duplicate check.
C4_NoUpdateOutsideTheTable ==
    /\ Len(flight_numbers) = Len(promises)
    /\ \A i \in Updates : TableRow(RawDateOf(i), FALSE) # 0

----------------------------------------------------------------------------
(* C5 *)

\* C5: every update is for a pair whose partial ratio is exactly 100; once the
\* loop is over, an internal payload with no such row is the target of no
\* update, and a row with no such payload is the row of no update.
C5_OnlyMaximumScore ==
    /\ \A i \in Updates :
         /\ matched[i] \in Visited
         /\ ratio[matched[i]] = 100
         /\ promises[i].filter = payloads[matched[i][1] + 1]
    /\ LoopDone =>
         /\ \A p \in 0..(Len(payloads) - 1) :
              (\A v \in Visited : v[1] = p => ratio[v] < 100)
                  => \A i \in Updates : promises[i].filter # payloads[p + 1]
         /\ \A m \in 0..(Len(manifest_dates) - 1) :
              (\A v \in Visited : v[2] = m => ratio[v] < 100)
                  => \A i \in Updates : RowOf(i) # m

\* The loop is over, one payload scored 99 on every row and got no update,
\* another scored 100 and got one.
C5_Witness ==
    /\ LoopDone
    /\ Len(payloads) = 2 /\ Len(manifest_dates) = 2
    /\ \A v \in Visited : v[1] = 0 => ratio[v] = 99
    /\ \E i \in Updates : promises[i].filter = payloads[2]

----------------------------------------------------------------------------
(* C6 *)

\* C6: in a run that reaches the submission step, the updates are addressed to
\* pairwise distinct payload ids.
C6_DistinctTargets ==
    pc \in {"await", "report", "closed", "rejected"} =>
        \A i, j \in Updates : i # j => promises[i].filter # promises[j].filter

----------------------------------------------------------------------------
(* C7 *)

\* C7: every reported line names the payload id the update it reports was
\* addressed to.
C7_ReportNamesTheTarget ==
    (pc \in {"report", "closed"} /\ index > 0) => logged.payload = promises[index].filter

----------------------------------------------------------------------------
(* C8 *)

\* C8: the update of a row carries the site id the table gives the row's
\* label; for a label outside the table the three site fields are null and the
\* update is submitted all the same, with its flight number and date fields.
C8_LaunchpadLookup ==
    /\ \A i \in Updates :
         /\ \A e \in SiteTable :
              LaunchpadOf(i) = e[1] => promises[i].set.site_id = e[2]
         /\ LaunchpadOf(i) \notin TableLabels =>
              /\ promises[i].set.site_id = null
              /\ promises[i].set.site_name = null
              /\ promises[i].set.site_name_long = null
              /\ promises[i].set.flight_number = base_flight_number + RowOf(i)
              /\ promises[i].set.tentative_max_precision = Classify(RawDateOf(i)).precision
    /\ \A v \in Visited :
         (ratio[v] = 100 /\ Classify(manifest_dates[v[2] + 1]).matched) => v \in Range(matched)

\* An update submitted for a row whose label is in no table, with null site.
C8_Witness ==
    \E i \in Updates :
        /\ LaunchpadOf(i) = "unknown-pad"
        /\ promises[i].set.site_id = null
        /\ promises[i].set.tentative_max_precision = "hour"

----------------------------------------------------------------------------
(* C9 *)

\* C9: for a quarter or half date, the text handed to the date parser has the
\* Q, H1 or H2 token replaced by its digit.
C9_ParserGetsNormalizedDate ==
    \A i \in Updates :
        promises[i].set.tentative_max_precision \in {"quarter", "half"} =>
            /\ ~Includes(ParserInputOf(i), <<"Q">>)
            /\ ~Includes(ParserInputOf(i), <<"H", "1">>)
            /\ ~Includes(ParserInputOf(i), <<"H", "2">>)

----------------------------------------------------------------------------
(* C10 *)

\* Some row with a classifiable date scored 100 against two internal payloads.
RowMatchedTwice ==
    \E v, w \in Visited :
        /\ v[2] = w[2] /\ v[1] # w[1]
        /\ ratio[v] = 100 /\ ratio[w] = 100
        /\ Classify(manifest_dates[v[2] + 1]).matched

\* C10: the duplicate check ends the run if and only if one row with a
\* classifiable date scored 100 against two internal payloads; updates of
\* different rows never carry the same flight number.
C10_DuplicateIffRowMatchedTwice ==
    /\ pc \notin {"forEach", "check"} => (pc = "exited" <=> RowMatchedTwice)
    /\ pc = "exited" <=> exit_code = 1
    /\ \A i, j \in Updates :
         RowOf(i) # RowOf(j) => promises[i].set.flight_number # promises[j].set.flight_number

\* The run ended in the duplicate exit.
C10_Witness ==
    /\ pc = "exited"
    /\ RowMatchedTwice
    /\ \E i, j \in Updates : i # j /\ flight_numbers[i] = flight_numbers[j]

====
